---- MODULE Spec2Model ----
(***************************************************************************)
(* A model of opentelemetry-sdk-trace-web/src/utils.ts: the matcher of     *)
(* performance entries to spans (getResource), the span enricher           *)
(* (addSpanNetworkEvent(s)) and the body-length estimators                 *)
(* (getFetchBodyLength, getXHRBodyLength).                                 *)
(***************************************************************************)
EXTENDS Integers, Sequences, FiniteSets, TLC

(***************************************************************************)
(* Bounds of the model.                                                    *)
(***************************************************************************)
\* largest performance timestamp (milliseconds since the time origin)
MaxTime == 2
\* largest number of entries in the performance buffer given to the matcher
MaxEntries == 3
\* the same two bounds for the buffers that exercise the filter alone
MaxFilterTime == 1
MaxFilterEntries == 2
\* and for the passes of several calls
MaxPassTime == 1
MaxPassEntries == 3
\* performance.timeOrigin of the page, in epoch milliseconds
TimeOrigin == 1000
\* the enricher: largest milestone timestamp, largest body size, and the
\* largest number of keys a PerformanceEntries object carries
MaxPerfTime == 1
MaxSize == 1
MaxKeys == 3
\* the body-length estimators: largest number of chunks of a stream, largest
\* chunk, largest length of a concrete body, largest number of form fields
MaxChunks == 2
MaxChunkLen == 2
MaxBodyLen == 2
MaxParams == 2

\* the JavaScript value undefined, for entry references (entries are 1..n)
Undefined == 0

VARIABLES
  resources,          \* the performance buffer: a sequence of entries
  locationOrigin,     \* location.origin of the page
  ignoredResources,   \* the caller's WeakSet: identities (indices) of entries
  matchArgs,          \* the arguments of the last getResource call
  filteredResources,  \* the candidates of the last call, in order
  matchResult,        \* what the last getResource call returned
  attributed,         \* entries returned by calls before the last one
  pc,                 \* "idle": no result outstanding; "returned": the caller holds one
  perfEntries,        \* the PerformanceEntries object given to the enricher
  span,               \* the span: its events and its attributes
  enrichCall,         \* the last call of the enricher
  document,           \* the page's global document
  body,               \* the request the estimators are given
  bodyCall,           \* which estimator was called: "none", "xhr" or "fetch"
  xhrLength,          \* what getXHRBodyLength returned
  warnings,           \* the number of DIAG_LOGGER.warn calls
  requestInitBody,    \* which stream requestInit.body holds after the call
  stream,             \* the ReadableStream: its source and the queues of its forks
  drain,              \* the loop of lengthPromise(): its state and its length
  lengthPromise,      \* the promise getFetchBodyLength returned
  consumer            \* the separate reader of requestInit.body

matcherVars == <<resources, locationOrigin, ignoredResources, matchArgs,
                 filteredResources, matchResult, attributed, pc>>
enricherVars == <<perfEntries, span, enrichCall>>
bodyVars == <<document, body, bodyCall, xhrLength, warnings, requestInitBody,
              stream, drain, lengthPromise, consumer>>
vars == <<matcherVars, enricherVars, bodyVars>>

(***************************************************************************)
(* Time: @opentelemetry/core's HrTime helpers, as utils.ts uses them.      *)
(***************************************************************************)
NanosPerSecond == 1000000000
NanosPerMilli == 1000000
MillisPerSecond == 1000

\* millisToHrTime: [trunc(ms / 1000), round((ms % 1000) * 1e6)]
millisToHrTime(epochMillis) ==
  <<epochMillis \div MillisPerSecond, (epochMillis % MillisPerSecond) * NanosPerMilli>>

\* addHrTimes: add with carry of the nanosecond part
addHrTimes(t1, t2) ==
  LET s == t1[1] + t2[1]
      n == t1[2] + t2[2]
  IN  IF n >= NanosPerSecond THEN <<s + 1, n - NanosPerSecond>> ELSE <<s, n>>

\* hrTime(performanceNow): the time origin plus a performance timestamp
hrTime(performanceNow) ==
  addHrTimes(millisToHrTime(TimeOrigin), millisToHrTime(performanceNow))

\* timeInputToHrTime of a number: a performance timestamp lies before the
\* time origin and is shifted by it, an epoch timestamp is only converted
timeInputToHrTime(time) ==
  IF time < TimeOrigin THEN hrTime(time) ELSE millisToHrTime(time)

hrTimeToNanoseconds(t) == t[1] * NanosPerSecond + t[2]

(***************************************************************************)
(* URLs.  A URL is [origin, path]; a relative URL has no origin.           *)
(***************************************************************************)
NoOrigin == "relative"
PageOrigin == "https://page.test"
ApiOrigin == "https://api.test"
BaseOrigin == PageOrigin     \* the origin of document.baseURI

\* parseUrl: new URL(url, document.baseURI); href and origin of the result
parseUrl(url) ==
  IF url.origin = NoOrigin
  THEN [origin |-> BaseOrigin, path |-> url.path]
  ELSE url

getOrigin == locationOrigin

\* String.prototype.toLowerCase on the initiator types of the model
toLowerCase(s) ==
  CASE s = "XMLHttpRequest" -> "xmlhttprequest"
    [] s = "FETCH" -> "fetch"
    [] OTHER -> s

(***************************************************************************)
(* The matcher.  Entries are referred to by their index in resources: the  *)
(* index is the identity of the PerformanceResourceTiming object.          *)
(***************************************************************************)
RECURSIVE SelectSeqIdx(_, _, _)
\* Array.prototype.filter on a sequence of entry references, from position i
\* on: the elements for which the callback holds (those of keep), in order
SelectSeqIdx(s, keep, i) ==
  IF i > Len(s) THEN <<>>
  ELSE (IF s[i] \in keep THEN <<s[i]>> ELSE <<>>) \o SelectSeqIdx(s, keep, i + 1)

\* the comparison of an entry's times with the span's, all in nanoseconds
inSpanWindowStrict(resourceStartTime, resourceEndTime, startTime, endTime) ==
  resourceStartTime > startTime /\ resourceEndTime <= endTime

inSpanWindow(resourceStartTime, resourceEndTime, startTime, endTime) ==
  resourceStartTime >= startTime /\ resourceEndTime <= endTime

\* the second filter keeps every entry it is given
keepIgnored(first, ignored) == first

\* the second filter: entries of ignoredResources are dropped
dropIgnored(first, ignored) ==
  LET notIgnored == {first[k] : k \in 1..Len(first)} \ ignored
  IN  IF Len(first) > 0 THEN SelectSeqIdx(first, notIgnored, 1) ELSE first

filterResourcesForSpan(spanUrl, startTimeHR, endTimeHR, res, ignored, initiatorType) ==
  LET startTime == hrTimeToNanoseconds(startTimeHR)
      endTime == hrTimeToNanoseconds(endTimeHR)
      wanted == IF initiatorType = "undefined" THEN "xmlhttprequest" ELSE initiatorType
      inSpan(i) ==
        LET resourceStartTime == hrTimeToNanoseconds(timeInputToHrTime(res[i].fetchStart))
            resourceEndTime == hrTimeToNanoseconds(timeInputToHrTime(res[i].responseEnd))
        IN  /\ toLowerCase(res[i].initiatorType) = wanted
            /\ res[i].name = spanUrl
            /\ inSpanWindow(resourceStartTime, resourceEndTime, startTime, endTime)
      first == SelectSeqIdx([i \in 1..Len(res) |-> i],
                            {i \in 1..Len(res) : inSpan(i)}, 1)
  IN  dropIgnored(first, ignored)

RECURSIVE InsertSorted(_, _, _)
\* x goes after every element that does not compare greater than it
InsertSorted(res, sorted, x) ==
  IF sorted = <<>> THEN <<x>>
  ELSE IF res[Head(sorted)].fetchStart > res[x].fetchStart
       THEN <<x>> \o sorted
       ELSE <<Head(sorted)>> \o InsertSorted(res, Tail(sorted), x)

RECURSIVE SortFrom(_, _, _, _)
SortFrom(res, filtered, i, acc) ==
  IF i > Len(filtered) THEN acc
  ELSE SortFrom(res, filtered, i + 1, InsertSorted(res, acc, filtered[i]))

\* sortResources: a sorted copy (slice().sort(), a stable sort by fetchStart)
sortResources(res, filtered) == SortFrom(res, filtered, 1, <<>>)

\* the loop of findMainRequest from position i on (1-based: the code's i + 1);
\* bestGap is [set, val]: !bestGap holds of undefined and of 0
RECURSIVE FindMainLoop(_, _, _, _, _, _, _)
FindMainLoop(res, sorted, minTime, spanEndTime, i, mainRequest, bestGap) ==
  IF i > Len(sorted) THEN mainRequest
  ELSE
    LET resource == sorted[i]
        resourceStartTime == hrTimeToNanoseconds(timeInputToHrTime(res[resource].fetchStart))
        resourceEndTime == hrTimeToNanoseconds(timeInputToHrTime(res[resource].responseEnd))
        currentGap == spanEndTime - resourceEndTime
        notBestGap == (~bestGap.set) \/ bestGap.val = 0
    IN  IF resourceStartTime >= minTime /\ (notBestGap \/ currentGap < bestGap.val)
        THEN FindMainLoop(res, sorted, minTime, spanEndTime, i + 1, resource,
                          [set |-> TRUE, val |-> currentGap])
        ELSE FindMainLoop(res, sorted, minTime, spanEndTime, i + 1, mainRequest, bestGap)

\* the loop starts at the earliest entry itself
findMainRequestFromFirst(res, sorted, corsPreFlightRequestEndTime, spanEndTimeHR) ==
  LET spanEndTime == hrTimeToNanoseconds(spanEndTimeHR)
      minTime == hrTimeToNanoseconds(timeInputToHrTime(corsPreFlightRequestEndTime))
  IN  FindMainLoop(res, sorted, minTime, spanEndTime, 1, sorted[1],
                   [set |-> FALSE, val |-> 0])

findMainRequest(res, sorted, corsPreFlightRequestEndTime, spanEndTimeHR) ==
  LET spanEndTime == hrTimeToNanoseconds(spanEndTimeHR)
      minTime == hrTimeToNanoseconds(timeInputToHrTime(corsPreFlightRequestEndTime))
  IN  FindMainLoop(res, sorted, minTime, spanEndTime, 2, sorted[2],
                   [set |-> FALSE, val |-> 0])

\* "no corsPreFlightRequest" also when the main request starts just as the
\* earliest entry ends
noCorsPreFlightInclusive(fetchStart, responseEnd) == fetchStart <= responseEnd

\* "no corsPreFlightRequest": the main request starts before the earliest
\* entry has ended
noCorsPreFlight(fetchStart, responseEnd) == fetchStart < responseEnd

\* the decision of getResource once the candidates are known
selectRequests(res, origin, parsedOrigin, filtered, endTimeHR) ==
  IF Len(filtered) = 0 THEN
    [mainRequest |-> Undefined, corsPreFlightRequest |-> Undefined]
  ELSE IF Len(filtered) = 1 THEN
    [mainRequest |-> filtered[1], corsPreFlightRequest |-> Undefined]
  ELSE
    LET sorted == sortResources(res, filtered)
    IN  IF parsedOrigin # origin /\ Len(sorted) > 1
        THEN LET corsPreFlightRequest == sorted[1]
                 mainRequest == findMainRequest(res, sorted,
                                  res[corsPreFlightRequest].responseEnd, endTimeHR)
                 responseEnd == res[corsPreFlightRequest].responseEnd
                 fetchStart == res[mainRequest].fetchStart
             IN  IF noCorsPreFlight(fetchStart, responseEnd)
                 THEN [mainRequest |-> corsPreFlightRequest,
                       corsPreFlightRequest |-> Undefined]
                 ELSE [mainRequest |-> mainRequest,
                       corsPreFlightRequest |-> corsPreFlightRequest]
        ELSE [mainRequest |-> filtered[1], corsPreFlightRequest |-> Undefined]

\* the candidates of a call
candidatesOf(a, res, ignored) ==
  filterResourcesForSpan(parseUrl(a.spanUrl), a.startTimeHR, a.endTimeHR,
                         res, ignored, a.initiatorType)

getResource(a, res, ignored) ==
  selectRequests(res, getOrigin, parseUrl(a.spanUrl).origin,
                 candidatesOf(a, res, ignored), a.endTimeHR)

\* the entries a result names
ResultEntries(r) == {r.mainRequest, r.corsPreFlightRequest} \ {Undefined}

(***************************************************************************)
(* The enricher.  A value of an entry object is [t, v]: a number ("num"),  *)
(* NaN ("nan", a number to typeof) or a string ("str"); a key that is      *)
(* missing is not in the DOMAIN of the object.                             *)
(***************************************************************************)
Num(n) == [t |-> "num", v |-> n]
NaN == [t |-> "nan", v |-> 0]
Str(n) == [t |-> "str", v |-> n]
\* two names of a resource: Str(0) is "http://...", Str(1) is "https://..."
HttpName == Str(0)
HttpsName == Str(1)
startsWithHttps(value) == value = HttpsName

\* PerformanceTimingNames
FETCH_START == "fetchStart"
DOMAIN_LOOKUP_START == "domainLookupStart"
DOMAIN_LOOKUP_END == "domainLookupEnd"
CONNECT_START == "connectStart"
SECURE_CONNECTION_START == "secureConnectionStart"
CONNECT_END == "connectEnd"
REQUEST_START == "requestStart"
RESPONSE_START == "responseStart"
RESPONSE_END == "responseEnd"
ENCODED_BODY_SIZE == "encodedBodySize"
DECODED_BODY_SIZE == "decodedBodySize"
\* semantic-conventions attribute names
SEMATTRS_HTTP_RESPONSE_CONTENT_LENGTH == "http.response_content_length"
SEMATTRS_HTTP_RESPONSE_CONTENT_LENGTH_UNCOMPRESSED ==
  "http.response_content_length_uncompressed"

hasKey(obj, key) == key \in DOMAIN obj
typeofNumber(value) == value.t \in {"num", "nan"}
\* a >= b on two values that typeof calls numbers: false when either is NaN
GreaterOrEqual(a, b) == a.t = "num" /\ b.t = "num" /\ a.v >= b.v

NewSpan == [events |-> <<>>, attributes |-> {}]
addEvent(spanv, name, time) ==
  [spanv EXCEPT !.events = Append(@, [name |-> name, time |-> time])]
setAttribute(spanv, key, value) ==
  [spanv EXCEPT !.attributes = {p \in @ : p[1] # key} \cup {<<key, value>>}]

\* refPerfName || PTN.FETCH_START: undefined and "" are falsy
refNameOf(refPerfName) ==
  IF refPerfName \in {"undefined", ""} THEN FETCH_START ELSE refPerfName

\* the event is added whenever both times are numbers
addSpanNetworkEventUnordered(spanv, performanceName, ent, refPerfName) ==
  LET refName == refNameOf(refPerfName)
  IN  IF /\ hasKey(ent, performanceName) /\ typeofNumber(ent[performanceName])
         /\ hasKey(ent, refName) /\ typeofNumber(ent[refName])
      THEN addEvent(spanv, performanceName, ent[performanceName])
      ELSE spanv

\* addSpanNetworkEvent: the span after the call
addSpanNetworkEvent(spanv, performanceName, ent, refPerfName) ==
  LET perfTimeDefined ==
        hasKey(ent, performanceName) /\ typeofNumber(ent[performanceName])
      refName == refNameOf(refPerfName)
      refTimeDefined == hasKey(ent, refName) /\ typeofNumber(ent[refName])
  IN  IF /\ perfTimeDefined
         /\ refTimeDefined
         /\ GreaterOrEqual(ent[performanceName], ent[refName])
      THEN addEvent(spanv, performanceName, ent[performanceName])
      ELSE spanv

\* the uncompressed length is set whenever the decoded size is present
setLengthAttributesAlways(spanv, ent) ==
  LET s1 == IF hasKey(ent, ENCODED_BODY_SIZE)
            THEN setAttribute(spanv, SEMATTRS_HTTP_RESPONSE_CONTENT_LENGTH,
                              ent[ENCODED_BODY_SIZE])
            ELSE spanv
  IN  IF hasKey(ent, DECODED_BODY_SIZE)
      THEN setAttribute(s1, SEMATTRS_HTTP_RESPONSE_CONTENT_LENGTH_UNCOMPRESSED,
                        ent[DECODED_BODY_SIZE])
      ELSE s1

\* the end of addSpanNetworkEvents: the two length attributes
setLengthAttributes(spanv, ent) ==
  LET encodedDefined == hasKey(ent, ENCODED_BODY_SIZE)
      decodedDefined == hasKey(ent, DECODED_BODY_SIZE)
      s1 == IF encodedDefined
            THEN setAttribute(spanv, SEMATTRS_HTTP_RESPONSE_CONTENT_LENGTH,
                              ent[ENCODED_BODY_SIZE])
            ELSE spanv
      \* encodedLength !== decodedLength, undefined being equal to itself only
      differ == (~encodedDefined) \/ ent[ENCODED_BODY_SIZE] # ent[DECODED_BODY_SIZE]
  IN  IF decodedDefined /\ differ
      THEN setAttribute(s1, SEMATTRS_HTTP_RESPONSE_CONTENT_LENGTH_UNCOMPRESSED,
                        ent[DECODED_BODY_SIZE])
      ELSE s1

\* addSpanNetworkEvents: the span after the call
addSpanNetworkEvents(spanv, resource) ==
  LET s1 == addSpanNetworkEvent(spanv, FETCH_START, resource, "undefined")
      s2 == addSpanNetworkEvent(s1, DOMAIN_LOOKUP_START, resource, "undefined")
      s3 == addSpanNetworkEvent(s2, DOMAIN_LOOKUP_END, resource, "undefined")
      s4 == addSpanNetworkEvent(s3, CONNECT_START, resource, "undefined")
      s5 == IF hasKey(resource, "name") /\ startsWithHttps(resource["name"])
            THEN addSpanNetworkEvent(s4, SECURE_CONNECTION_START, resource, "undefined")
            ELSE s4
      s6 == addSpanNetworkEvent(s5, CONNECT_END, resource, "undefined")
      s7 == addSpanNetworkEvent(s6, REQUEST_START, resource, "undefined")
      s8 == addSpanNetworkEvent(s7, RESPONSE_START, resource, "undefined")
      s9 == addSpanNetworkEvent(s8, RESPONSE_END, resource, "undefined")
  IN  setLengthAttributes(s9, resource)

(***************************************************************************)
(* The body-length estimators.  A body is a record with a kind; the        *)
(* lengths of strings, buffers and serializations are what the model keeps *)
(* of them.                                                                *)
(***************************************************************************)
RECURSIVE SumSeq(_)
SumSeq(q) == IF q = <<>> THEN 0 ELSE Head(q) + SumSeq(Tail(q))

RECURSIVE PairsLength(_)
\* the characters of the name=value pairs of a query string
PairsLength(params) ==
  IF params = <<>> THEN 0
  ELSE Head(params)[1] + 1 + Head(params)[2] + PairsLength(Tail(params))

\* URLSearchParams.prototype.toString().length: name=value pairs joined by &
\* (the names and values of the model need no percent-encoding)
searchParamsLength(params) ==
  PairsLength(params) + (IF Len(params) > 1 THEN Len(params) - 1 ELSE 0)

\* new XMLSerializer().serializeToString(doc).length
serializedLength(doc) == doc.length

\* the Document case serializes the Document it is given
xhrDocumentLengthOfBody(b, doc) == serializedLength(b)

\* the Document case of getXHRBodyLength: the global document is serialized
xhrDocumentLength(b, doc) == serializedLength(doc)

\* getXHRBodyLength: [length, warned]
getXHRBodyLength(b, doc) ==
  IF b.kind = "document" THEN [length |-> xhrDocumentLength(b, doc), warned |-> 0]
  ELSE IF b.kind = "blob" THEN [length |-> b.size, warned |-> 0]
  ELSE IF b.kind \in {"arraybuffer", "view"} THEN [length |-> b.byteLength, warned |-> 0]
  ELSE IF b.kind = "formdata" THEN [length |-> searchParamsLength(b.params), warned |-> 0]
  ELSE IF b.kind = "urlsearchparams"
       THEN [length |-> searchParamsLength(b.params), warned |-> 0]
  ELSE IF b.kind = "string" THEN [length |-> b.length, warned |-> 0]
  ELSE [length |-> 0, warned |-> 1]

\* the fork of a teed stream that _getBodyNonDestructively drains is handed
\* back as the body
bodyOfDrainedFork(hasTee) == IF hasTee THEN "bodyToConsume" ELSE "body"

\* the stream _getBodyNonDestructively hands back as requestInit.body: the
\* stream itself when it cannot be teed, else the fork that is not drained
bodyToReturnOf(hasTee) == IF hasTee THEN "bodyToReturn" ELSE "body"

\* a stream that is locked refuses another reader: the original once it is
\* teed, the drained fork once lengthPromise() holds its reader
Locked(ref, st, dr) ==
  \/ ref = "body" /\ st.teed
  \/ ref = "bodyToConsume" /\ dr.state # "none"

\* reader.read() on a stream of the model: [value, done, stream].  A fork
\* with an empty queue pulls the next chunk of the source, which is queued
\* for the other fork too; the original stream is read from its source.
readStream(ref, st) ==
  LET own == IF ref = "bodyToReturn" THEN st.toReturn ELSE st.toConsume
  IN  IF ref # "body" /\ own # <<>> THEN
        [value |-> Head(own), done |-> FALSE,
         stream |-> IF ref = "bodyToReturn"
                    THEN [st EXCEPT !.toReturn = Tail(@)]
                    ELSE [st EXCEPT !.toConsume = Tail(@)]]
      ELSE IF st.source = <<>> THEN
        [value |-> 0, done |-> TRUE, stream |-> st]
      ELSE
        [value |-> Head(st.source), done |-> FALSE,
         stream |-> IF ref = "body" THEN [st EXCEPT !.source = Tail(@)]
                    ELSE IF ref = "bodyToReturn"
                    THEN [st EXCEPT !.source = Tail(@),
                                    !.toConsume = Append(@, Head(st.source))]
                    ELSE [st EXCEPT !.source = Tail(@),
                                    !.toReturn = Append(@, Head(st.source))]]

NoStream == [source |-> <<>>, toReturn |-> <<>>, toConsume |-> <<>>, teed |-> FALSE]
NoDrain == [state |-> "none", length |-> 0]
NoPromise == [state |-> "none", value |-> 0]
NewConsumer == [state |-> "waiting", received |-> <<>>, late |-> FALSE]
\* the values a length promise resolves to
Resolved(kind, n) == [state |-> kind, value |-> n]

(***************************************************************************)
(* Inputs.                                                                 *)
(***************************************************************************)
DataPath == "/data"
RelativeUrl == [origin |-> NoOrigin, path |-> DataPath]
ApiUrl == [origin |-> ApiOrigin, path |-> DataPath]
PageUrl == [origin |-> PageOrigin, path |-> DataPath]

\* a PerformanceResourceTiming entry ends no earlier than it starts
Timings(maxT) == {t \in (0..maxT) \X (0..maxT) : t[1] <= t[2]}

EntriesOf(names, types, maxT) ==
  {[name |-> n, initiatorType |-> ty, fetchStart |-> t[1], responseEnd |-> t[2]] :
     n \in names, ty \in types, t \in Timings(maxT)}

BuffersOf(entries, maxLen) == UNION {[1..n -> entries] : n \in 0..maxLen}

\* a span window: two HrTimes, the start not after the end
Windows(maxT) == {w \in (0..maxT) \X (0..maxT) : w[1] <= w[2]}

CallArgs(urls, types, maxT) ==
  {[spanUrl |-> u, startTimeHR |-> hrTime(w[1]), endTimeHR |-> hrTime(w[2]),
    initiatorType |-> ty] : u \in urls, ty \in types, w \in Windows(maxT)}

NoArgs == [spanUrl |-> RelativeUrl, startTimeHR |-> hrTime(0), endTimeHR |-> hrTime(0),
           initiatorType |-> "none"]
NoResult == [mainRequest |-> Undefined, corsPreFlightRequest |-> Undefined]

\* the keys the entry objects of the model carry, and their values
PopulatedMilestones ==
  {FETCH_START, DOMAIN_LOOKUP_START, SECURE_CONNECTION_START, RESPONSE_END}
SizeKeys == {ENCODED_BODY_SIZE, DECODED_BODY_SIZE}
PopulatedKeys == PopulatedMilestones \cup SizeKeys \cup {"name"}
ValuesOf(key) ==
  IF key \in PopulatedMilestones
  THEN {Num(n) : n \in 0..MaxPerfTime} \cup {NaN, Str(0)}
  ELSE IF key \in SizeKeys THEN {Num(n) : n \in 0..MaxSize}
  ELSE {HttpName, HttpsName}
AllValues == UNION {ValuesOf(k) : k \in PopulatedKeys}
EntriesOver(keys) == {f \in [keys -> AllValues] : \A k \in keys : f[k] \in ValuesOf(k)}
\* the objects of at most maxKeys keys
PerformanceEntriesOf(maxKeys) ==
  UNION {EntriesOver(keys) :
           keys \in {ks \in SUBSET PopulatedKeys : Cardinality(ks) <= maxKeys}}
EmptyEntries == [k \in {} |-> NaN]

\* the chunks of a stream: Uint8Arrays, known by their lengths
ChunkSeqs == UNION {[1..n -> 0..MaxChunkLen] : n \in 0..MaxChunks}
\* the name=value pairs of form data and of search parameters, by length
ParamSeqs == UNION {[1..n -> (1..MaxBodyLen) \X (0..MaxBodyLen)] : n \in 0..MaxParams}
Documents == {[length |-> n] : n \in 1..MaxBodyLen}

\* what XMLHttpRequest.send and RequestInit.body accept, and one thing more
ConcreteBodies(doc) ==
  {[kind |-> "string", length |-> n] : n \in 1..MaxBodyLen}
    \cup {[kind |-> "blob", size |-> n] : n \in 0..MaxBodyLen}
    \cup {[kind |-> k, byteLength |-> n] : k \in {"arraybuffer", "view"}, n \in 0..MaxBodyLen}
    \cup {[kind |-> k, params |-> ps] : k \in {"formdata", "urlsearchparams"},
                                        ps \in ParamSeqs}
    \cup {[kind |-> "document", global |-> g, length |-> n] :
            g \in BOOLEAN, n \in 1..MaxBodyLen}
    \cup {[kind |-> "object"]}

\* a Document body is the page's document or another Document
WellFormed(b, doc) == (b.kind = "document" /\ b.global) => b.length = doc.length

\* the arguments of fetch: a URL with a RequestInit, or a Request
FetchInputs(doc) ==
  {[kind |-> "none"]}
    \cup {[kind |-> "stream", tee |-> t, chunks |-> cs] : t \in BOOLEAN, cs \in ChunkSeqs}
    \cup {[kind |-> "request", hasBody |-> h, textLength |-> n] :
            h \in BOOLEAN, n \in 1..MaxBodyLen}
    \cup ConcreteBodies(doc)

\* the milestones and references single calls of addSpanNetworkEvent name
CalledMilestones == PopulatedMilestones \cup {CONNECT_END}
CalledReferences == {"undefined", "", RESPONSE_END}
NoEnrichCall == [op |-> "none", performanceName |-> "", refPerfName |-> ""]

(***************************************************************************)
(* Operations.                                                             *)
(***************************************************************************)
\* a run of getResource that also marks what it returns as used
GetResourceRunMarking(a) ==
  /\ filteredResources' = candidatesOf(a, resources, ignoredResources)
  /\ matchResult' = getResource(a, resources, ignoredResources)
  /\ ignoredResources' = ignoredResources \cup ResultEntries(matchResult')
  /\ UNCHANGED <<resources, locationOrigin>>

\* a run of getResource: it computes its candidates and its result and
\* writes to none of its inputs
GetResourceRun(a) ==
  /\ filteredResources' = candidatesOf(a, resources, ignoredResources)
  /\ matchResult' = getResource(a, resources, ignoredResources)
  /\ UNCHANGED <<resources, locationOrigin, ignoredResources>>

\* one call of getResource by a caller that holds no result
GetResourceCall(a) ==
  /\ pc = "idle"
  /\ GetResourceRun(a)
  /\ matchArgs' = a
  /\ pc' = "returned"
  /\ UNCHANGED <<attributed, enricherVars, bodyVars>>

\* the same call once more, with the same arguments, before the caller has
\* marked anything
Recall ==
  /\ pc = "returned"
  /\ GetResourceRun(matchArgs)
  /\ UNCHANGED <<attributed, matchArgs, pc, enricherVars, bodyVars>>

\* the caller attributes what the last call returned to its span, marks it
\* as used and lets go of the result
AddIgnored ==
  /\ pc = "returned"
  /\ ignoredResources' = ignoredResources \cup ResultEntries(matchResult)
  /\ attributed' = attributed \cup ResultEntries(matchResult)
  /\ matchArgs' = NoArgs
  /\ filteredResources' = <<>>
  /\ matchResult' = NoResult
  /\ pc' = "idle"
  /\ UNCHANGED <<resources, locationOrigin, enricherVars, bodyVars>>

\* one call of addSpanNetworkEvent on a new span
AddSpanNetworkEvent(performanceName, refPerfName) ==
  /\ enrichCall.op = "none"
  /\ span' = addSpanNetworkEvent(span, performanceName, perfEntries, refPerfName)
  /\ enrichCall' = [op |-> "event", performanceName |-> performanceName,
                    refPerfName |-> refPerfName]
  /\ UNCHANGED <<matcherVars, perfEntries, bodyVars>>

\* one call of addSpanNetworkEvents on a new span
AddSpanNetworkEvents ==
  /\ enrichCall.op = "none"
  /\ span' = addSpanNetworkEvents(span, perfEntries)
  /\ enrichCall' = [op |-> "events", performanceName |-> "", refPerfName |-> "undefined"]
  /\ UNCHANGED <<matcherVars, perfEntries, bodyVars>>

\* one call of getXHRBodyLength
GetXHRBodyLength ==
  /\ bodyCall = "none"
  /\ body.kind \notin {"none", "stream", "request"}
  /\ LET r == getXHRBodyLength(body, document)
     IN  /\ xhrLength' = r.length
         /\ warnings' = warnings + r.warned
  /\ bodyCall' = "xhr"
  /\ UNCHANGED <<matcherVars, enricherVars, document, body, requestInitBody, stream,
                 drain, lengthPromise, consumer>>

\* one call of getFetchBodyLength, up to the first await of lengthPromise()
GetFetchBodyLength ==
  /\ bodyCall = "none"
  /\ bodyCall' = "fetch"
  /\ IF body.kind = "request" THEN
       \* info.clone().text().then(...), or no body
       /\ lengthPromise' = IF body.hasBody THEN Resolved("pending", 0)
                           ELSE Resolved("undefined", 0)
       /\ UNCHANGED <<requestInitBody, stream, drain, warnings>>
     ELSE IF body.kind = "none" THEN
       /\ lengthPromise' = Resolved("undefined", 0)
       /\ UNCHANGED <<requestInitBody, stream, drain, warnings>>
     ELSE IF body.kind = "stream" THEN
       /\ requestInitBody' = bodyToReturnOf(body.tee)
       /\ stream' = [stream EXCEPT !.teed = body.tee]
       /\ drain' = IF body.tee THEN [state |-> "reading", length |-> 0] ELSE drain
       /\ lengthPromise' = IF body.tee THEN Resolved("pending", 0)
                           ELSE Resolved("null", 0)
       /\ UNCHANGED warnings
     ELSE
       LET r == getXHRBodyLength(body, document)
       IN  /\ lengthPromise' = Resolved("resolved", r.length)
           /\ warnings' = warnings + r.warned
           /\ UNCHANGED <<requestInitBody, stream, drain>>
  /\ UNCHANGED <<matcherVars, enricherVars, document, body, xhrLength, consumer>>

\* the continuation of one await reader.read() in lengthPromise()
DrainStep ==
  /\ drain.state = "reading"
  /\ LET contents == readStream("bodyToConsume", stream)
     IN  /\ stream' = contents.stream
         /\ IF contents.done
            THEN /\ drain' = [drain EXCEPT !.state = "done"]
                 /\ lengthPromise' = Resolved("resolved", drain.length)
            ELSE /\ drain' = [drain EXCEPT !.length = @ + contents.value]
                 /\ UNCHANGED lengthPromise
  /\ UNCHANGED <<matcherVars, enricherVars, document, body, bodyCall, xhrLength,
                 warnings, requestInitBody, consumer>>

\* the text of the clone of a Request arrives
ResolveText ==
  /\ body.kind = "request"
  /\ lengthPromise.state = "pending"
  /\ lengthPromise' = Resolved("resolved", body.textLength)
  /\ UNCHANGED <<matcherVars, enricherVars, document, body, bodyCall, xhrLength,
                 warnings, requestInitBody, stream, drain, consumer>>

\* the transmission layer reads requestInit.body: it takes a reader, which a
\* locked stream refuses, and then one chunk with each read
ConsumerRead ==
  /\ bodyCall = "fetch"
  /\ body.kind = "stream"
  /\ consumer.state \in {"waiting", "reading"}
  /\ IF consumer.state = "waiting" /\ Locked(requestInitBody, stream, drain) THEN
       /\ consumer' = [consumer EXCEPT !.state = "refused"]
       /\ UNCHANGED stream
     ELSE
       LET contents == readStream(requestInitBody, stream)
           late == IF consumer.state = "waiting"
                   THEN lengthPromise.state = "resolved"
                   ELSE consumer.late
       IN  /\ stream' = contents.stream
           /\ consumer' =
                IF contents.done
                THEN [consumer EXCEPT !.state = "done", !.late = late]
                ELSE [state |-> "reading",
                      received |-> Append(consumer.received, contents.value),
                      late |-> late]
  /\ UNCHANGED <<matcherVars, enricherVars, document, body, bodyCall, xhrLength,
                 warnings, requestInitBody, drain, lengthPromise>>

\* no estimator called yet, on no request
NoBodyCallYet ==
  /\ bodyCall = "none"
  /\ xhrLength = 0
  /\ warnings = 0
  /\ requestInitBody = "body"
  /\ drain = NoDrain
  /\ lengthPromise = NoPromise
  /\ consumer = NewConsumer

NoBodyCall ==
  /\ document = [length |-> 1]
  /\ body = [kind |-> "none"]
  /\ stream = NoStream
  /\ NoBodyCallYet

\* what every specification starts from, the buffer and the page aside
FreshCaller ==
  /\ ignoredResources = {}
  /\ matchArgs = NoArgs
  /\ filteredResources = <<>>
  /\ matchResult = NoResult
  /\ attributed = {}
  /\ pc = "idle"

\* no entry object and a span without events and attributes
FreshSpan ==
  /\ span = NewSpan
  /\ enrichCall = NoEnrichCall

\* Spec: one call on any buffer of cross-origin-named entries, from a page
\* of either origin
MatchInit ==
  /\ resources \in BuffersOf(EntriesOf({ApiUrl}, {"xmlhttprequest"}, MaxTime), MaxEntries)
  /\ locationOrigin \in {PageOrigin, ApiOrigin}
  /\ FreshCaller
  /\ perfEntries = EmptyEntries
  /\ FreshSpan
  /\ NoBodyCall

MatchCall == \E a \in CallArgs({ApiUrl}, {"undefined"}, MaxTime) : GetResourceCall(a)

Next == MatchCall \/ Recall

Spec == MatchInit /\ [][Next]_vars

\* SpecPass: a pass of calls that share ignoredResources
PassInit ==
  /\ resources \in BuffersOf(EntriesOf({ApiUrl}, {"xmlhttprequest"}, MaxPassTime),
                              MaxPassEntries)
  /\ locationOrigin \in {PageOrigin, ApiOrigin}
  /\ FreshCaller
  /\ perfEntries = EmptyEntries
  /\ FreshSpan
  /\ NoBodyCall

PassCall == \E a \in CallArgs({ApiUrl}, {"undefined"}, MaxPassTime) : GetResourceCall(a)

NextPass == PassCall \/ Recall \/ AddIgnored

SpecPass == PassInit /\ [][NextPass]_vars

\* SpecFilter: entries of two URLs and two initiator types, calls with a
\* relative span URL and with and without an initiator type
FilterInit ==
  /\ resources \in BuffersOf(EntriesOf({ApiUrl, PageUrl}, {"xmlhttprequest", "fetch"},
                                        MaxFilterTime), MaxFilterEntries)
  /\ locationOrigin = PageOrigin
  /\ FreshCaller
  /\ perfEntries = EmptyEntries
  /\ FreshSpan
  /\ NoBodyCall

FilterCall ==
  \E a \in CallArgs({RelativeUrl}, {"undefined", "fetch"}, MaxFilterTime) :
    GetResourceCall(a)

NextFilter == FilterCall \/ AddIgnored

SpecFilter == FilterInit /\ [][NextFilter]_vars

\* SpecEnrich: one call of the enricher on any entry object
EnrichInit ==
  /\ resources = <<>>
  /\ locationOrigin = PageOrigin
  /\ FreshCaller
  /\ perfEntries \in PerformanceEntriesOf(MaxKeys)
  /\ FreshSpan
  /\ NoBodyCall

EnrichOne ==
  \E performanceName \in CalledMilestones, refPerfName \in CalledReferences :
    AddSpanNetworkEvent(performanceName, refPerfName)

NextEnrich == EnrichOne \/ AddSpanNetworkEvents

SpecEnrich == EnrichInit /\ [][NextEnrich]_vars

\* SpecBody: one call of an estimator on any request, and what follows it
BodyInit ==
  /\ resources = <<>>
  /\ locationOrigin = PageOrigin
  /\ FreshCaller
  /\ perfEntries = EmptyEntries
  /\ span = NewSpan
  /\ enrichCall = NoEnrichCall
  /\ document \in Documents
  /\ body \in {b \in FetchInputs(document) : WellFormed(b, document)}
  /\ stream = [NoStream EXCEPT !.source =
                 IF body.kind = "stream" THEN body.chunks ELSE <<>>]
  /\ NoBodyCallYet

NextBody ==
  GetXHRBodyLength \/ GetFetchBodyLength \/ DrainStep \/ ResolveText \/ ConsumerRead

SpecBody == BodyInit /\ [][NextBody]_vars

(***************************************************************************)
(* Properties of the matcher.                                              *)
(***************************************************************************)
Returned == pc = "returned"
Candidates == {filteredResources[k] : k \in 1..Len(filteredResources)}
\* the position of a candidate in the input order of the candidates
PosOf(c) == CHOOSE k \in 1..Len(filteredResources) : filteredResources[k] = c
SameOrigin == parseUrl(matchArgs.spanUrl).origin = locationOrigin

\* c comes before d when the candidates are ordered by fetch-start, input
\* order deciding ties
Before(c, d) ==
  \/ resources[c].fetchStart < resources[d].fetchStart
  \/ resources[c].fetchStart = resources[d].fetchStart /\ PosOf(c) < PosOf(d)

\* the candidate with the smallest fetch-start, the first such in input order
Earliest == CHOOSE c \in Candidates : \A d \in Candidates \ {c} : Before(c, d)

\* a span time in performance milliseconds
PerfMillis(hr) == hr[1] * MillisPerSecond + hr[2] \div NanosPerMilli - TimeOrigin

\* C1: for a same-origin span URL with two or more candidates, mainRequest is
\* the candidate with the smallest fetch-start (the first such in input order)
\* and no corsPreFlightRequest is set.
C1_SameOriginEarliest ==
  (Returned /\ SameOrigin /\ Len(filteredResources) >= 2) =>
    /\ matchResult.mainRequest = Earliest
    /\ matchResult.corsPreFlightRequest = Undefined

\* the non-earliest candidates that start no earlier than the earliest ends
Eligible ==
  {c \in Candidates \ {Earliest} :
     resources[c].fetchStart >= resources[Earliest].responseEnd}
\* span end time - response-end, in milliseconds
Gap(c) == PerfMillis(matchArgs.endTimeHR) - resources[c].responseEnd
\* the eligible candidate of least gap, the first in sorted order on ties
BestEligible ==
  CHOOSE c \in Eligible :
    \A d \in Eligible \ {c} : Gap(c) < Gap(d) \/ (Gap(c) = Gap(d) /\ Before(c, d))

\* C2: for a cross-origin span with two or more candidates of which some
\* non-earliest one starts no earlier than the earliest ends, mainRequest is
\* the one of those that minimizes span end time - response-end, the first in
\* sorted order on ties, also when a gap is 0.
C2_MainMinimizesGap ==
  (Returned /\ ~SameOrigin /\ Len(filteredResources) >= 2 /\ Eligible # {}) =>
    matchResult.mainRequest = BestEligible

\* the other one of exactly two candidates
Later == CHOOSE c \in Candidates : c # Earliest

\* C3: for a cross-origin span with exactly two candidates A (the earlier) and
\* B: if B starts no earlier than A ends the result is corsPreFlightRequest A
\* and mainRequest B; if B starts before A ends it is mainRequest A alone.
C3_TwoCrossOriginCandidates ==
  (Returned /\ ~SameOrigin /\ Len(filteredResources) = 2) =>
    IF resources[Later].fetchStart >= resources[Earliest].responseEnd
    THEN matchResult = [mainRequest |-> Later, corsPreFlightRequest |-> Earliest]
    ELSE matchResult = [mainRequest |-> Earliest, corsPreFlightRequest |-> Undefined]

\* B precedes A in the buffer, starts exactly as A ends, and A is returned as
\* the preflight
C3_Witness ==
  /\ Returned /\ ~SameOrigin /\ Len(filteredResources) = 2
  /\ Later < Earliest
  /\ resources[Later].fetchStart = resources[Earliest].responseEnd
  /\ resources[Earliest].fetchStart < resources[Later].fetchStart
  /\ matchResult.corsPreFlightRequest = Earliest

\* C4: in a pass of calls that share ignoredResources, the caller adding what
\* each call returned, a call returns no entry that an earlier call returned
\* and no entry that is in ignoredResources when it is called.
C4_NeverAttributedTwice ==
  Returned => ResultEntries(matchResult) \cap (attributed \cup ignoredResources) = {}

\* an entry already attributed lies in the span window of a later call that
\* returns another entry
C4_Witness ==
  /\ Returned
  /\ ResultEntries(matchResult) # {}
  /\ \E i \in attributed :
       /\ resources[i].fetchStart >= PerfMillis(matchArgs.startTimeHR)
       /\ resources[i].responseEnd <= PerfMillis(matchArgs.endTimeHR)
       /\ resources[i].fetchStart < resources[matchResult.mainRequest].fetchStart

\* the initiator type a call asks for
WantedInitiator ==
  IF matchArgs.initiatorType = "undefined" THEN "xmlhttprequest"
  ELSE matchArgs.initiatorType

\* what the claim says of a candidate, the times in performance milliseconds
ShouldBeCandidate(i) ==
  /\ resources[i].initiatorType = WantedInitiator
  /\ resources[i].name.origin =
       (IF matchArgs.spanUrl.origin = NoOrigin THEN BaseOrigin
        ELSE matchArgs.spanUrl.origin)
  /\ resources[i].name.path = matchArgs.spanUrl.path
  /\ resources[i].fetchStart >= PerfMillis(matchArgs.startTimeHR)
  /\ resources[i].responseEnd <= PerfMillis(matchArgs.endTimeHR)
  /\ i \notin ignoredResources

\* C5: the candidates are exactly the entries of matching initiator type
\* ("xmlhttprequest" when none is given), of name equal to the normalized span
\* URL, with fetch-start >= span start, response-end <= span end, and not in
\* ignoredResources; each is a candidate once.
C5_CandidatesExact ==
  Returned =>
    /\ Candidates = {i \in 1..Len(resources) : ShouldBeCandidate(i)}
    /\ Cardinality(Candidates) = Len(filteredResources)

\* a relative span URL, an explicit initiator type, an entry that starts with
\* the span and ends with it and is a candidate, and an ignored entry
C5_Witness ==
  /\ Returned
  /\ matchArgs.spanUrl = RelativeUrl
  /\ matchArgs.initiatorType = "fetch"
  /\ ignoredResources # {}
  /\ \E c \in Candidates :
       /\ resources[c].fetchStart = PerfMillis(matchArgs.startTimeHR)
       /\ resources[c].responseEnd = PerfMillis(matchArgs.endTimeHR)
       /\ resources[c].responseEnd > resources[c].fetchStart

C11_PreflightWellFormed ==
  Returned =>
    /\ matchResult.corsPreFlightRequest # Undefined =>
         /\ matchResult.corsPreFlightRequest = Earliest
         /\ matchResult.mainRequest # matchResult.corsPreFlightRequest
         /\ matchResult.mainRequest \in Candidates
         /\ matchResult.corsPreFlightRequest \in Candidates
         /\ resources[matchResult.mainRequest].fetchStart >=
              resources[matchResult.corsPreFlightRequest].responseEnd
    /\ matchResult.mainRequest = Undefined => Candidates = {}
    /\ matchResult.mainRequest # Undefined => matchResult.mainRequest \in Candidates

\* three candidates, the earliest of them the last in the buffer and as long
\* as it is early: it is the preflight of a main request that is not the
\* next one in fetch-start order
C11_Witness ==
  /\ Returned
  /\ Len(filteredResources) = 3
  /\ matchResult.corsPreFlightRequest = filteredResources[3]
  /\ resources[matchResult.corsPreFlightRequest].fetchStart =
       resources[matchResult.corsPreFlightRequest].responseEnd
  /\ \E c \in Candidates \ ResultEntries(matchResult) :
       Before(c, matchResult.mainRequest)

(***************************************************************************)
(* Properties of the enricher.                                             *)
(***************************************************************************)
\* the key of the reference timestamp of the last call
RefKey == refNameOf(enrichCall.refPerfName)
IsNumber(obj, key) == key \in DOMAIN obj /\ obj[key].t = "num"

\* C6: every event added carries the entry's own field as its timestamp; that
\* field and the reference (fetch-start by default) are present numbers, and
\* the timestamp is not smaller than the reference.
C6_EventsNotBeforeReference ==
  \A k \in 1..Len(span.events) :
    LET ev == span.events[k]
    IN  /\ IsNumber(perfEntries, ev.name)
        /\ ev.time = perfEntries[ev.name]
        /\ IsNumber(perfEntries, RefKey)
        /\ ev.time.v >= perfEntries[RefKey].v

\* addSpanNetworkEvents added the fetch-start event and none for a later
\* milestone whose timestamp lies before fetch-start
C6_Witness ==
  /\ enrichCall.op = "events"
  /\ Len(span.events) = 1
  /\ IsNumber(perfEntries, FETCH_START)
  /\ IsNumber(perfEntries, RESPONSE_END)
  /\ perfEntries[RESPONSE_END].v < perfEntries[FETCH_START].v

AttributeSet(key) == \E p \in span.attributes : p[1] = key
AttributeIs(key, value) ==
  {p \in span.attributes : p[1] = key} = {<<key, value>>}

\* C7: after addSpanNetworkEvents the uncompressed-content-length attribute is
\* set, to the decoded size, exactly when the decoded size is present and
\* differs from the encoded size; the response-content-length attribute is
\* set, to the encoded size, exactly when the encoded size is present.
C7_LengthAttributes ==
  enrichCall.op = "events" =>
    LET encoded == ENCODED_BODY_SIZE \in DOMAIN perfEntries
        decoded == DECODED_BODY_SIZE \in DOMAIN perfEntries
        wanted ==
          decoded /\ (encoded => perfEntries[ENCODED_BODY_SIZE].v #
                                   perfEntries[DECODED_BODY_SIZE].v)
    IN  /\ AttributeSet(SEMATTRS_HTTP_RESPONSE_CONTENT_LENGTH_UNCOMPRESSED) <=> wanted
        /\ wanted => AttributeIs(SEMATTRS_HTTP_RESPONSE_CONTENT_LENGTH_UNCOMPRESSED,
                                  perfEntries[DECODED_BODY_SIZE])
        /\ AttributeSet(SEMATTRS_HTTP_RESPONSE_CONTENT_LENGTH) <=> encoded
        /\ encoded => AttributeIs(SEMATTRS_HTTP_RESPONSE_CONTENT_LENGTH,
                                   perfEntries[ENCODED_BODY_SIZE])

\* equal sizes: the response-content-length alone is set
C7_Witness ==
  /\ enrichCall.op = "events"
  /\ ENCODED_BODY_SIZE \in DOMAIN perfEntries
  /\ DECODED_BODY_SIZE \in DOMAIN perfEntries
  /\ perfEntries[ENCODED_BODY_SIZE] = perfEntries[DECODED_BODY_SIZE]
  /\ perfEntries[ENCODED_BODY_SIZE].v > 0
  /\ span.attributes = {<<SEMATTRS_HTTP_RESPONSE_CONTENT_LENGTH,
                          perfEntries[ENCODED_BODY_SIZE]>>}

(***************************************************************************)
(* Properties of the body-length estimators.                               *)
(***************************************************************************)
TeedStream == bodyCall = "fetch" /\ body.kind = "stream" /\ body.tee
IsPrefix(p, q) == Len(p) <= Len(q) /\ \A k \in 1..Len(p) : p[k] = q[k]

\* C8: given a stream that supports tee, the consumer of requestInit.body is
\* never refused, receives the chunks of the original stream in order and is
\* told of completion only after all of them, however its reads interleave
\* with the drain; the length promise resolves only once the drained fork has
\* signalled done, and to the sum of the chunk lengths.
C8_TeeLeavesBodyReadable ==
  TeedStream =>
    /\ consumer.state # "refused"
    /\ IsPrefix(consumer.received, body.chunks)
    /\ consumer.state = "done" => consumer.received = body.chunks
    /\ lengthPromise.state \in {"pending", "resolved"}
    /\ lengthPromise.state = "resolved" =>
         drain.state = "done" /\ lengthPromise.value = SumSeq(body.chunks)

\* the consumer took its reader after the length promise had resolved and
\* has received both chunks and completion
C8_Witness ==
  /\ TeedStream
  /\ consumer.state = "done"
  /\ consumer.late
  /\ Len(body.chunks) = 2
  /\ body.chunks[1] # body.chunks[2]
  /\ lengthPromise = Resolved("resolved", body.chunks[1] + body.chunks[2])

\* the natural length of a concrete body
NaturalLength(b) ==
  CASE b.kind = "string" -> b.length
    [] b.kind = "blob" -> b.size
    [] b.kind \in {"arraybuffer", "view"} -> b.byteLength
    [] b.kind \in {"formdata", "urlsearchparams"} -> searchParamsLength(b.params)
    [] b.kind = "document" -> b.length
    [] OTHER -> 0

\* C10: getXHRBodyLength returns the natural length of the body it is given:
\* for a Document, the length of the serialization of that Document; an
\* unrecognized body yields 0 and one warning, any other body no warning.
C10_NaturalLength ==
  bodyCall = "xhr" =>
    /\ xhrLength = NaturalLength(body)
    /\ warnings = IF body.kind = "object" THEN 1 ELSE 0

====
